---- MODULE Spec2Model ----
(***************************************************************************)
(* Model of DS/avl.c: iterative AVL construction (generate_avl), the      *)
(* bottom-up rebalancing pass (rebalance), the rotation primitives, the   *)
(* cached height / balance factor helpers and whole-tree deletion         *)
(* (delete_avl).                                                           *)
(*                                                                         *)
(* A node is identified by the position of its value in the input array:  *)
(* the node allocated for arr[i] (C index i) has identity i + 1.  NULL is *)
(* the identity 0.                                                         *)
(***************************************************************************)
EXTENDS Integers, Sequences, FiniteSets

\* ---------------------------------------------------------------- bounds
\* arrays of up to MaxLen elements over 1..MaxVal, and longer arrays of up
\* to DeepLen elements over 1..DeepVal (trees deep enough for an unwind to
\* go on above a rotation)
MaxLen == 5
MaxVal == 4
DeepLen == 8
DeepVal == 2

\* ------------------------------------------------------------- constants
LEFT == 0
RIGHT == 1
NULL == 0
InvalidInput == -1

Longest == IF DeepLen > MaxLen THEN DeepLen ELSE MaxLen
NodeIds == 1..Longest
Arrays ==
    UNION ({[1..n -> 1..MaxVal] : n \in 0..MaxLen}
           \cup {[1..n -> 1..DeepVal] : n \in 0..DeepLen})

VARIABLES
    arrPresent, \* FALSE when the caller passes arr == NULL
    arr,        \* the caller's array as a sequence (empty when absent)
    len,        \* the len argument
    pc,         \* position of the caller / generate_avl
    i,          \* loop index of generate_avl (C, 0-based)
    head,       \* *head: identity of the root node, NULL before it is set
    headAlloc,  \* TRUE once the handle (avl_pp head) has been allocated
    root,       \* the descent cursor of generate_avl
    nodes,      \* the heap of avl_t nodes: identity -> record
    nalloc,     \* number of avl_t nodes allocated so far
    stack,      \* path stack: sequence of nodedata, top is the last element
    stackAlloc, \* TRUE while the stack obtained from get_stack() is live
    ret,        \* what generate_avl returned: "none", "NULL" or "head"
    rotations,  \* number of rotations applied during the current unwind
    consumed,   \* the parent whose stack entry the last rotation consumed
    allocFailed,\* TRUE once a calloc/malloc of generate_avl returned NULL
    target,     \* the argument the caller passed to delete_avl
    count,      \* value returned by delete_avl, 0 before any call
    freed       \* identities passed to free() by delete_avl, in order

vars == <<arrPresent, arr, len, pc, i, head, headAlloc, root, nodes, nalloc,
          stack, stackAlloc, ret, rotations, consumed, allocFailed, target,
          count, freed>>

\* avl_t after calloc(1, sizeof(avl_t)): every field zero
avl_t == [data |-> 0, height |-> 0, left |-> NULL, right |-> NULL]

\* ------------------------------------------------------ height utilities
\* height with the right child left out of the maximum
heightLeftOnly(t, node) ==
    IF node = NULL THEN 0
    ELSE IF t[node].left = NULL THEN 0 ELSE 1 + t[t[node].left].height

\* int height(avl_p node), reading the children's cached heights
height(t, node) ==
    IF node = NULL THEN 0
    ELSE LET lh == IF t[node].left = NULL THEN 0 ELSE 1 + t[t[node].left].height
             rh == IF t[node].right = NULL THEN 0 ELSE 1 + t[t[node].right].height
         IN  IF lh >= rh THEN lh ELSE rh

\* int BalanceFactor(avl_p node)
BalanceFactor(t, node) ==
    IF node = NULL THEN 0
    ELSE LET lh == IF t[node].left = NULL THEN 0 ELSE 1 + t[t[node].left].height
             rh == IF t[node].right = NULL THEN 0 ELSE 1 + t[t[node].right].height
         IN  lh - rh

\* ------------------------------------------------------------- rotations
\* Each rotation yields the rewritten heap and the new subtree root.
\* RotateRight without the refresh of the demoted node's height
RotateRightStaleHeight(t, node) ==
    LET left_node == t[node].left
        t1 == [t EXCEPT ![node].left = t[left_node].right]
        t2 == [t1 EXCEPT ![left_node].right = node]
        t4 == [t2 EXCEPT ![left_node].height = height(t2, left_node)]
    IN  [t |-> t4, root |-> left_node]

RotateRight(t, node) ==
    LET left_node == t[node].left
        t1 == [t EXCEPT ![node].left = t[left_node].right]
        t2 == [t1 EXCEPT ![left_node].right = node]
        t3 == [t2 EXCEPT ![node].height = height(t2, node)]
        t4 == [t3 EXCEPT ![left_node].height = height(t3, left_node)]
    IN  [t |-> t4, root |-> left_node]

\* RotateLeft handing the demoted node right_node->right, not ->left
RotateLeftWrongChild(t, node) ==
    LET right_node == t[node].right
        t1 == [t EXCEPT ![node].right = t[right_node].right]
        t2 == [t1 EXCEPT ![right_node].left = node]
        t3 == [t2 EXCEPT ![node].height = height(t2, node)]
        t4 == [t3 EXCEPT ![right_node].height = height(t3, right_node)]
    IN  [t |-> t4, root |-> right_node]

RotateLeft(t, node) ==
    LET right_node == t[node].right
        t1 == [t EXCEPT ![node].right = t[right_node].left]
        t2 == [t1 EXCEPT ![right_node].left = node]
        t3 == [t2 EXCEPT ![node].height = height(t2, node)]
        t4 == [t3 EXCEPT ![right_node].height = height(t3, right_node)]
    IN  [t |-> t4, root |-> right_node]

RightRight(t, node) == RotateLeft(t, node)

LeftLeft(t, node) == RotateRight(t, node)

\* LeftRight without the inner rotation
LeftRightSingle(t, node) == RotateRight(t, node)

LeftRight(t, node) ==
    LET r1 == RotateLeft(t, t[node].left)
        t1 == [r1.t EXCEPT ![node].left = r1.root]
    IN  RotateRight(t1, node)

RightLeft(t, node) ==
    LET r1 == RotateRight(t, t[node].right)
        t1 == [r1.t EXCEPT ![node].right = r1.root]
    IN  RotateLeft(t1, node)

\* ------------------------------------------------------------ path stack
\* nodedata whose direction is LEFT whatever the traversal
nodedataLeftOnly(node, direction) == [node |-> node, direction |-> LEFT]

\* nodedata pushed while traversing down
nodedata(node, direction) == [node |-> node, direction |-> direction]

push(s, n) == Append(s, n)

\* pop yields the most recently pushed entry and the remaining stack;
\* found = FALSE stands for the NULL that pop returns on an empty stack
pop(s) ==
    IF s = <<>> THEN [found |-> FALSE, stack |-> s]
    ELSE [found |-> TRUE, p |-> s[Len(s)], stack |-> SubSeq(s, 1, Len(s) - 1)]

\* ------------------------------------------------------------- rebalance
\* the selection without the left-heavy branch
SkewNoLeft(t, tmp, data) ==
    IF BalanceFactor(t, tmp) = -2
    THEN IF data >= t[t[tmp].right].data THEN "RR" ELSE "RL"
    ELSE "none"

\* the selection with data > in place of data >= on the right
SkewStrict(t, tmp, data) ==
    IF BalanceFactor(t, tmp) = -2
    THEN IF data > t[t[tmp].right].data THEN "RR" ELSE "RL"
    ELSE IF BalanceFactor(t, tmp) = 2
         THEN IF data < t[t[tmp].left].data THEN "LL" ELSE "LR"
         ELSE "none"

\* The rotation rebalance selects for tmp: "RR", "RL", "LL", "LR" or "none"
Skew(t, tmp, data) ==
    IF BalanceFactor(t, tmp) = -2
    THEN IF data >= t[t[tmp].right].data THEN "RR" ELSE "RL"
    ELSE IF BalanceFactor(t, tmp) = 2
         THEN IF data < t[t[tmp].left].data THEN "LL" ELSE "LR"
         ELSE "none"

\* TRUE when rebalance would follow an absent child pointer inside a
\* double rotation (RotateRight(node->right) / RotateLeft(node->left))
RebalanceDerefsNull(t, tmp, data) ==
    \/ Skew(t, tmp, data) = "RL" /\ t[t[tmp].right].left = NULL
    \/ Skew(t, tmp, data) = "LR" /\ t[t[tmp].left].right = NULL

\* void rebalance(stack_p stack, avl_pp head, avl_p tmp, int data)
\* over heap t; yields the heap, the stack and *head it leaves behind
rebalance(t, s, h, tmp, data) ==
    LET skew == Skew(t, tmp, data)
        po == IF skew = "none" THEN [found |-> FALSE, stack |-> s] ELSE pop(s)
        r == IF skew = "RR" THEN RightRight(t, tmp)
             ELSE IF skew = "RL" THEN RightLeft(t, tmp)
             ELSE IF skew = "LL" THEN LeftLeft(t, tmp)
             ELSE IF skew = "LR" THEN LeftRight(t, tmp)
             ELSE [t |-> t, root |-> tmp]
        t1 == IF skew # "none" /\ po.found
              THEN IF po.p.direction = RIGHT
                   THEN [r.t EXCEPT ![po.p.node].right = r.root]
                   ELSE [r.t EXCEPT ![po.p.node].left = r.root]
              ELSE r.t
        h1 == IF skew # "none" /\ ~po.found THEN r.root ELSE h
        t2 == [t1 EXCEPT ![tmp].height = height(t1, tmp)]
    IN  [t |-> t2, stack |-> po.stack, head |-> h1,
         rotated |-> IF skew = "none" THEN 0 ELSE 1,
         parent |-> IF po.found THEN po.p.node ELSE NULL]

\* ------------------------------------------------------------ delete_avl
RECURSIVE delete_avl_postinc(_, _)
\* delete_avl ending in return count++
delete_avl_postinc(t, r) ==
    IF r = NULL THEN [count |-> InvalidInput, freed |-> <<>>]
    ELSE LET l == IF t[r].left # NULL THEN delete_avl_postinc(t, t[r].left)
                  ELSE [count |-> 0, freed |-> <<>>]
             rr == IF t[r].right # NULL THEN delete_avl_postinc(t, t[r].right)
                   ELSE [count |-> 0, freed |-> <<>>]
         IN  [count |-> l.count + rr.count,
              freed |-> l.freed \o rr.freed \o <<r>>]

RECURSIVE delete_avl(_, _)
\* int delete_avl(avl_p root): the returned count and the nodes freed
delete_avl(t, r) ==
    IF r = NULL THEN [count |-> InvalidInput, freed |-> <<>>]
    ELSE LET l == IF t[r].left # NULL THEN delete_avl(t, t[r].left)
                  ELSE [count |-> 0, freed |-> <<>>]
             rr == IF t[r].right # NULL THEN delete_avl(t, t[r].right)
                   ELSE [count |-> 0, freed |-> <<>>]
         IN  [count |-> l.count + rr.count + 1,
              freed |-> l.freed \o rr.freed \o <<r>>]

\* ------------------------------------------------------------------ Init
Init ==
    /\ arrPresent \in BOOLEAN
    /\ arr \in Arrays
    /\ arrPresent = FALSE => arr = <<>>
    /\ len \in 0..Longest
    /\ arrPresent => len = Len(arr)
    /\ pc = "start"
    /\ i = 1
    /\ head = NULL
    /\ headAlloc = FALSE
    /\ root = NULL
    /\ nodes = [n \in NodeIds |-> avl_t]
    /\ nalloc = 0
    /\ stack = <<>>
    /\ stackAlloc = FALSE
    /\ ret = "none"
    /\ rotations = 0
    /\ consumed = NULL
    /\ allocFailed = FALSE
    /\ target = NULL
    /\ count = 0
    /\ freed = <<>>

\* A store through, or a read of, an absent (NULL) pointer: undefined
\* behaviour.  The process is either killed or goes on in an unspecified
\* state; in both cases nothing is reported through the return value.
NullDeref ==
    /\ pc' \in {"segv", "undefined"}
    /\ UNCHANGED <<arrPresent, arr, len, i, head, headAlloc, root, nodes,
                   nalloc, stack, stackAlloc, ret, rotations, consumed, target,
                   count, freed>>

\* ---------------------------------------------------------- generate_avl
\* lines 40-50: locals, get_stack(), argument check
Entry ==
    /\ pc = "start"
    /\ stackAlloc' = TRUE
    /\ IF ~arrPresent \/ len = 0
       THEN /\ ret' = "NULL"
            /\ pc' = "returned"
       ELSE /\ ret' = ret
            /\ pc' = "allocRoot"
    /\ UNCHANGED <<arrPresent, arr, len, i, head, headAlloc, root, nodes,
                   nalloc, stack, rotations, consumed, allocFailed, target,
                   count, freed>>

\* lines 52-57: the first node
AllocRoot ==
    /\ pc = "allocRoot"
    /\ \E ok \in BOOLEAN :
         IF ok
         THEN /\ nodes' = [nodes EXCEPT ![1] = [avl_t EXCEPT !.data = arr[1]]]
              /\ nalloc' = 1
              /\ root' = 1
              /\ pc' = "allocHead"
              /\ UNCHANGED <<ret, allocFailed>>
         ELSE /\ allocFailed' = TRUE
              /\ ret' = "NULL"
              /\ pc' = "returned"
              /\ UNCHANGED <<nodes, nalloc, root>>
    /\ UNCHANGED <<arrPresent, arr, len, i, head, headAlloc, stack,
                   stackAlloc, rotations, consumed, target, count, freed>>

\* lines 58-59: the handle; *head = root is not guarded
AllocHead ==
    /\ pc = "allocHead"
    /\ \E ok \in BOOLEAN :
         IF ok
         THEN /\ headAlloc' = TRUE
              /\ head' = root
              /\ pc' = "loop"
              /\ UNCHANGED <<arrPresent, arr, len, i, root, nodes, nalloc,
                             stack, stackAlloc, ret, rotations, consumed,
                             allocFailed, target, count, freed>>
         ELSE allocFailed' = TRUE /\ NullDeref

\* line 61 (loop test) and lines 118-120 (destroy_stack, return head)
Loop ==
    /\ pc = "loop"
    /\ IF i < len
       THEN /\ pc' = "descend"
            /\ UNCHANGED <<stackAlloc, ret>>
       ELSE /\ stackAlloc' = FALSE
            /\ ret' = "head"
            /\ pc' = "returned"
    /\ UNCHANGED <<arrPresent, arr, len, i, head, headAlloc, root, nodes,
                   nalloc, stack, rotations, consumed, allocFailed, target,
                   count, freed>>

\* lines 63, 82-90: push the parent and go left
TraverseLeft ==
    /\ pc = "descend"
    /\ arr[i + 1] < nodes[root].data
    /\ nodes[root].left # NULL
    /\ \E ok \in BOOLEAN :
         IF ok
         THEN /\ stack' = push(stack, nodedata(root, LEFT))
              /\ root' = nodes[root].left
              /\ UNCHANGED <<arrPresent, arr, len, pc, i, head, headAlloc,
                             nodes, nalloc, stackAlloc, ret, rotations,
                             consumed, allocFailed, target, count, freed>>
         ELSE allocFailed' = TRUE /\ NullDeref

\* lines 91, 108-113: push the parent and go right
TraverseRight ==
    /\ pc = "descend"
    /\ ~(arr[i + 1] < nodes[root].data)
    /\ nodes[root].right # NULL
    /\ \E ok \in BOOLEAN :
         IF ok
         THEN /\ stack' = push(stack, nodedata(root, RIGHT))
              /\ root' = nodes[root].right
              /\ UNCHANGED <<arrPresent, arr, len, pc, i, head, headAlloc,
                             nodes, nalloc, stackAlloc, ret, rotations,
                             consumed, allocFailed, target, count, freed>>
         ELSE allocFailed' = TRUE /\ NullDeref

\* lines 64-68: create the left child
InsertLeft ==
    /\ pc = "descend"
    /\ arr[i + 1] < nodes[root].data
    /\ nodes[root].left = NULL
    /\ \E ok \in BOOLEAN :
         IF ok
         THEN LET new == nalloc + 1
                  t1 == [nodes EXCEPT ![root].left = new]
                  t2 == [t1 EXCEPT ![new] = [avl_t EXCEPT !.data = arr[i + 1]]]
              IN  /\ nodes' = [t2 EXCEPT ![root].height = height(t2, root)]
                  /\ nalloc' = new
                  /\ rotations' = 0
                  /\ consumed' = NULL
                  /\ pc' = "unwind"
                  /\ UNCHANGED <<arrPresent, arr, len, i, head, headAlloc,
                                 root, stack, stackAlloc, ret, allocFailed,
                                 target, count, freed>>
         ELSE allocFailed' = TRUE /\ NullDeref

\* lines 92-95: create the right child
InsertRight ==
    /\ pc = "descend"
    /\ ~(arr[i + 1] < nodes[root].data)
    /\ nodes[root].right = NULL
    /\ \E ok \in BOOLEAN :
         IF ok
         THEN LET new == nalloc + 1
                  t1 == [nodes EXCEPT ![root].right = new]
                  t2 == [t1 EXCEPT ![new] = [avl_t EXCEPT !.data = arr[i + 1]]]
              IN  /\ nodes' = [t2 EXCEPT ![root].height = height(t2, root)]
                  /\ nalloc' = new
                  /\ rotations' = 0
                  /\ consumed' = NULL
                  /\ pc' = "unwind"
                  /\ UNCHANGED <<arrPresent, arr, len, i, head, headAlloc,
                                 root, stack, stackAlloc, ret, allocFailed,
                                 target, count, freed>>
         ELSE allocFailed' = TRUE /\ NullDeref

\* lines 71-76 / 97-102: one turn of the unwind loop, rebalance included
Unwind ==
    /\ pc = "unwind"
    /\ pop(stack).found
    /\ LET po == pop(stack)
           tmp == po.p.node
       IN  IF RebalanceDerefsNull(nodes, tmp, arr[i + 1])
           THEN allocFailed' = allocFailed /\ NullDeref
           ELSE LET rb == rebalance(nodes, po.stack, head, tmp, arr[i + 1])
                IN  /\ nodes' = rb.t
                    /\ stack' = rb.stack
                    /\ head' = rb.head
                    /\ rotations' = rotations + rb.rotated
                    /\ consumed' = IF rb.rotated = 1 THEN rb.parent
                                   ELSE consumed
                    /\ UNCHANGED <<arrPresent, arr, len, pc, i, headAlloc,
                                   root, nalloc, stackAlloc, ret, allocFailed,
                                   target, count, freed>>

\* pop returned NULL: lines 78-79 (restart from *head) and the i++ of line 61
UnwindEnd ==
    /\ pc = "unwind"
    /\ ~pop(stack).found
    /\ root' = head
    /\ i' = i + 1
    /\ pc' = "loop"
    /\ UNCHANGED <<arrPresent, arr, len, head, headAlloc, nodes, nalloc,
                   stack, stackAlloc, ret, rotations, consumed, allocFailed,
                   target, count, freed>>

\* ------------------------------------------------------------ the caller
\* The caller hands delete_avl the root of the built tree (*head), or an
\* absent root.
DeleteAvl ==
    /\ pc = "returned"
    /\ \E r \in {NULL} \cup (IF ret = "head" THEN {head} ELSE {}) :
         /\ target' = r
         /\ count' = delete_avl(nodes, r).count
         /\ freed' = delete_avl(nodes, r).freed
    /\ pc' = "deleted"
    /\ UNCHANGED <<arrPresent, arr, len, i, head, headAlloc, root, nodes,
                   nalloc, stack, stackAlloc, ret, rotations, consumed,
                   allocFailed>>

Next ==
    \/ Entry
    \/ AllocRoot
    \/ AllocHead
    \/ Loop
    \/ TraverseLeft
    \/ TraverseRight
    \/ InsertLeft
    \/ InsertRight
    \/ Unwind
    \/ UnwindEnd
    \/ DeleteAvl

Spec == Init /\ [][Next]_vars

\* ============================================================ properties
RECURSIVE Inorder(_, _)
\* identities of the subtree of n in inorder (left, node, right)
Inorder(t, n) ==
    IF n = NULL THEN <<>>
    ELSE Inorder(t, t[n].left) \o <<n>> \o Inorder(t, t[n].right)

Range(s) == {s[k] : k \in 1..Len(s)}

\* the nodes of the subtree rooted at n
Subtree(t, n) == Range(Inorder(t, n))

RECURSIVE TrueHeight(_, _)
\* height of the subtree of n, recomputed from the shape alone: 0 without
\* children, else 1 + the larger height of the children present
TrueHeight(t, n) ==
    LET lh == IF t[n].left = NULL THEN 0 ELSE 1 + TrueHeight(t, t[n].left)
        rh == IF t[n].right = NULL THEN 0 ELSE 1 + TrueHeight(t, t[n].right)
    IN  IF lh >= rh THEN lh ELSE rh

\* balance factor from the recomputed heights
TrueBalance(t, n) ==
    LET lh == IF t[n].left = NULL THEN 0 ELSE 1 + TrueHeight(t, t[n].left)
        rh == IF t[n].right = NULL THEN 0 ELSE 1 + TrueHeight(t, t[n].right)
    IN  lh - rh

\* an insertion (or the creation of the first node) has completed its unwind
InsertionComplete ==
    \/ pc = "loop"
    \/ pc = "returned" /\ ret = "head"

Built == pc = "returned" /\ ret = "head"

\* the tree is under construction or built, and not yet handed to delete_avl
TreeLive == pc \in {"loop", "descend", "unwind"} \/ Built

\* the order of a stable ascending sort: by value, then by input position
Before(a, b) ==
    \/ nodes[a].data < nodes[b].data
    \/ nodes[a].data = nodes[b].data /\ a < b

\* ------------------------------------------------------------------- C1
\* C1: after every completed insertion, every node reachable from *head
\* has a balance factor, computed from the recomputed heights of its
\* subtrees, in {-1, 0, 1}.
C1_Balanced ==
    InsertionComplete =>
        \A n \in Subtree(nodes, head) : TrueBalance(nodes, n) \in {-1, 0, 1}

\* an insertion that needed a rotation below the root has completed
C1_Witness ==
    /\ pc = "loop"
    /\ rotations = 1
    /\ consumed # NULL
    /\ nalloc >= 5

\* ------------------------------------------------------------------- C2
\* C2: the inorder traversal of the returned tree holds one node per input
\* element, each with its element's value, in ascending order of value, and
\* equal values in input order.
C2_InorderStableSorted ==
    Built =>
        LET s == Inorder(nodes, head)
        IN  /\ Len(s) = len
            /\ Range(s) = 1..len
            /\ \A n \in 1..len : nodes[n].data = arr[n]
            /\ \A k \in 1..(Len(s) - 1) : Before(s[k], s[k + 1])

\* a built tree of an unsorted input with repeated values whose root was
\* replaced by a rotation
C2_Witness ==
    /\ Built
    /\ len >= 5
    /\ head # 1
    /\ \E j, k \in 1..len : j < k /\ arr[j] = arr[k]
    /\ \E j, k \in 1..len : j < k /\ arr[j] > arr[k]

\* ------------------------------------------------------------------- C3
\* C3: after every completed insertion, every node's stored height equals
\* the recomputed height of its subtree; this includes the parent whose
\* stack entry rebalance consumed after a rotation.
C3_HeightsExact ==
    InsertionComplete =>
        \A n \in Subtree(nodes, head) : nodes[n].height = TrueHeight(nodes, n)

\* an insertion has completed in which rebalance consumed a parent entry
C3_Witness ==
    /\ pc = "loop"
    /\ rotations = 1
    /\ consumed # NULL
    /\ consumed \in Subtree(nodes, head)
    /\ nodes[consumed].height >= 2

\* ------------------------------------------------------------------- C4
\* C4 as stated: for every node, every value in its left subtree is
\* strictly less than the node's value and every value in its right
\* subtree is greater than or equal to it.
C4_StrictLeft ==
    TreeLive =>
        \A n \in Subtree(nodes, head) :
            /\ \A m \in Subtree(nodes, nodes[n].left) :
                   nodes[m].data < nodes[n].data
            /\ \A m \in Subtree(nodes, nodes[n].right) :
                   nodes[m].data >= nodes[n].data

\* C4 amended: for every node, every value in its left subtree is less than
\* or equal to the node's value, an equal one belonging to an element that
\* came earlier in the input, and every value in its right subtree is
\* greater than or equal to it, an equal one belonging to a later element.
C4_OrderedTiesByAge ==
    TreeLive =>
        \A n \in Subtree(nodes, head) :
            /\ \A m \in Subtree(nodes, nodes[n].left) : Before(m, n)
            /\ \A m \in Subtree(nodes, nodes[n].right) : Before(n, m)

\* a node with an equal value in its left subtree, after a completed
\* insertion
C4_Witness ==
    /\ pc = "loop"
    /\ \E n \in Subtree(nodes, head) :
         \E m \in Subtree(nodes, nodes[n].left) :
             nodes[m].data = nodes[n].data

\* ------------------------------------------------------------------- C5
\* C5: an input of exactly three integers yields a root with two leaf
\* children, the left child, the root and the right child being the first,
\* middle and last element of the stably sorted input, with stored heights
\* 1 for the root and 0 for both children.
C5_ThreeElements ==
    (Built /\ len = 3) =>
        LET l == nodes[head].left
            r == nodes[head].right
        IN  /\ l # NULL /\ r # NULL
            /\ {l, head, r} = {1, 2, 3}
            /\ \A n \in {1, 2, 3} : nodes[n].data = arr[n]
            /\ Before(l, head) /\ Before(head, r)
            /\ nodes[l].left = NULL /\ nodes[l].right = NULL
            /\ nodes[r].left = NULL /\ nodes[r].right = NULL
            /\ nodes[head].height = 1
            /\ nodes[l].height = 0 /\ nodes[r].height = 0

\* the left-right case at the root: the shape of [30, 10, 20]
C5_Witness ==
    /\ Built
    /\ arr = <<3, 1, 2>>
    /\ head = 3

\* ------------------------------------------------------------------- C6
\* C6: delete_avl on the root of a tree built from n values returns n and
\* frees each of the n nodes exactly once; on an absent root it returns
\* InvalidInput (-1) and frees nothing.
C6_DeleteCounts ==
    pc = "deleted" =>
        IF target = NULL
        THEN count = InvalidInput /\ freed = <<>>
        ELSE /\ count = len
             /\ Len(freed) = len
             /\ Range(freed) = 1..len

\* a tree of several levels has been deleted
C6_Witness ==
    /\ pc = "deleted"
    /\ target # NULL
    /\ count >= 5

\* ------------------------------------------------------------------- C7
\* C7: generate_avl on an absent array or a length of 0 returns NULL with
\* no node, no handle and no other resource of the call (the path stack
\* included) left allocated.
C7_InvalidInputHoldsNothing ==
    (pc = "returned" /\ (~arrPresent \/ len = 0)) =>
        /\ ret = "NULL"
        /\ nalloc = 0
        /\ ~headAlloc
        /\ ~stackAlloc

\* ------------------------------------------------------------------- C8
\* C8: once an allocation of generate_avl has failed, the call has returned
\* NULL to its caller; it has not dereferenced the absent result and does
\* not go on building.
C8_AllocFailureReported ==
    allocFailed =>
        /\ pc \in {"returned", "deleted"}
        /\ ret = "NULL"

\* ------------------------------------------------------------------- C9
\* C9: during one unwind at most one rotation is applied; it is applied at
\* a node whose recomputed balance factor is the +2 or -2 that rebalance
\* read, with every node below it balanced; every ancestor examined after
\* it has balance factor in {-1, 0, 1}; and no node ever has a balance
\* factor of magnitude above 2.
C9_OneRotation ==
    /\ rotations <= 1
    /\ (pc = "unwind" /\ stack # <<>>) =>
          LET tmp == stack[Len(stack)].node
          IN  /\ Skew(nodes, tmp, arr[i + 1]) # "none" =>
                    /\ rotations = 0
                    /\ TrueBalance(nodes, tmp) = BalanceFactor(nodes, tmp)
                    /\ \A n \in Subtree(nodes, tmp) \ {tmp} :
                           TrueBalance(nodes, n) \in {-1, 0, 1}
              /\ rotations = 1 => BalanceFactor(nodes, tmp) \in {-1, 0, 1}
    /\ TreeLive =>
          \A n \in Subtree(nodes, head) :
              /\ TrueBalance(nodes, n) \in -2..2
              /\ BalanceFactor(nodes, n) \in -2..2

\* an ancestor is about to be examined after a rotation further down
C9_Witness ==
    /\ pc = "unwind"
    /\ rotations = 1
    /\ stack # <<>>

\* ------------------------------------------------------------------ C10
\* C10: when rebalance reads +2 at a node, the new node is in the node's
\* left subtree and the test v < node.left.value picks LeftLeft exactly
\* when the new node is in node.left's left subtree, and LeftRight exactly
\* when it is in node.left's right subtree (which is then present);
\* symmetrically for -2, RightRight and RightLeft.
C10_SkewFollowsPath ==
    (pc = "unwind" /\ stack # <<>>) =>
        LET tmp == stack[Len(stack)].node
            new == nalloc
            l == nodes[tmp].left
            r == nodes[tmp].right
            skew == Skew(nodes, tmp, arr[i + 1])
        IN  /\ BalanceFactor(nodes, tmp) = 2 =>
                  /\ new \in Subtree(nodes, l)
                  /\ skew = "LL" <=> new \in Subtree(nodes, nodes[l].left)
                  /\ skew = "LR" <=> new \in Subtree(nodes, nodes[l].right)
                  /\ skew \in {"LL", "LR"}
            /\ BalanceFactor(nodes, tmp) = -2 =>
                  /\ new \in Subtree(nodes, r)
                  /\ skew = "RR" <=> new \in Subtree(nodes, nodes[r].right)
                  /\ skew = "RL" <=> new \in Subtree(nodes, nodes[r].left)
                  /\ skew \in {"RR", "RL"}

\* rebalance reads +2 for an inserted value equal to node.left's value
C10_Witness ==
    /\ pc = "unwind"
    /\ stack # <<>>
    /\ BalanceFactor(nodes, stack[Len(stack)].node) = 2
    /\ arr[i + 1] = nodes[nodes[stack[Len(stack)].node].left].data

====
